---- MODULE Spec2Model ----
(***************************************************************************)
(* Model of tools/dspreset_parser.py: the scalar parsers (parse_note,      *)
(* parse_db, parse_time), the preset parser (parse_dspreset) and the batch *)
(* driver (scan_folder).                                                   *)
(*                                                                         *)
(* Text is a sequence of one-character strings.  Python's None is the      *)
(* value None below, which is no text.  A float is an exact decimal        *)
(* [n, d] standing for n / 10^d, kept normalised, so that equal numbers    *)
(* are equal values; binary rounding is not modelled.  The alphabet holds  *)
(* no 'e', 'inf', 'nan', '+' or '_', so int() and float() are modelled on  *)
(* optional blanks, an optional '-', digits and one '.'.                   *)
(***************************************************************************)
EXTENDS Integers, Sequences, FiniteSets, TLC

\* ------------------------------------------------------------------ bounds
MaxLen == 3

\* -------------------------------------------------------------------- text
None == <<"<None>">>

Alphabet == {"C", "b", "B", "d", "#", "1", "4", "-", ".", " ", "m", "s"}

\* The texts explored: every text of at most MaxLen characters.
IsText(t) == \E n \in 0..MaxLen : \E s \in [1..n -> Alphabet] : t = s

UpperLetters == <<"A","B","C","D","E","F","G","H","I","J","K","L","M",
                  "N","O","P","Q","R","S","T","U","V","W","X","Y","Z">>
LowerLetters == <<"a","b","c","d","e","f","g","h","i","j","k","l","m",
                  "n","o","p","q","r","s","t","u","v","w","x","y","z">>

LowerChar(c) ==
  IF \E i \in 1..26 : UpperLetters[i] = c
  THEN LowerLetters[CHOOSE i \in 1..26 : UpperLetters[i] = c]
  ELSE c

UpperChar(c) ==
  IF \E i \in 1..26 : LowerLetters[i] = c
  THEN UpperLetters[CHOOSE i \in 1..26 : LowerLetters[i] = c]
  ELSE c

Lower(s) == [i \in 1..Len(s) |-> LowerChar(s[i])]

RECURSIVE LStrip(_)
LStrip(s) == IF s # <<>> /\ s[1] = " " THEN LStrip(Tail(s)) ELSE s

RECURSIVE RStrip(_)
RStrip(s) ==
  IF s # <<>> /\ s[Len(s)] = " " THEN RStrip(SubSeq(s, 1, Len(s) - 1)) ELSE s

Strip(s) == RStrip(LStrip(s))

Contains(s, pat) ==
  \E i \in 1..(Len(s) - Len(pat) + 1) : SubSeq(s, i, i + Len(pat) - 1) = pat

\* str.replace(pat, ''): every non-overlapping occurrence, left to right.
RECURSIVE Remove(_, _)
Remove(s, pat) ==
  IF Len(s) < Len(pat) THEN s
  ELSE IF SubSeq(s, 1, Len(pat)) = pat
       THEN Remove(SubSeq(s, Len(pat) + 1, Len(s)), pat)
       ELSE <<s[1]>> \o Remove(Tail(s), pat)

\* ----------------------------------------------------------------- numbers
Digits == <<"0","1","2","3","4","5","6","7","8","9">>

IsDigit(c) == \E i \in 1..10 : Digits[i] = c

DigitVal(c) == (CHOOSE i \in 1..10 : Digits[i] = c) - 1

IsDigits(s) == \A i \in 1..Len(s) : IsDigit(s[i])

RECURSIVE NatOf(_)
NatOf(s) ==
  IF s = <<>> THEN 0
  ELSE 10 * NatOf(SubSeq(s, 1, Len(s) - 1)) + DigitVal(s[Len(s)])

RECURSIVE Pow10(_)
Pow10(k) == IF k = 0 THEN 1 ELSE 10 * Pow10(k - 1)

RECURSIVE Norm(_, _)
Norm(n, d) ==
  IF n = 0 THEN [n |-> 0, d |-> 0]
  ELSE IF d > 0 /\ n % 10 = 0 THEN Norm(n \div 10, d - 1)
       ELSE [n |-> n, d |-> d]

Dec(n, d) == Norm(n, d)

DecAdd(a, b) ==
  LET d == IF a.d > b.d THEN a.d ELSE b.d
  IN  Norm(a.n * Pow10(d - a.d) + b.n * Pow10(d - b.d), d)

DecDiv1000(a) == Norm(a.n, a.d + 3)

\* int() and float() give [ok, val]; ok = FALSE is Python's ValueError.
NoNumber == [ok |-> FALSE, val |-> 0]

NoFloat == [ok |-> FALSE, val |-> Dec(0, 0)]

IntOfDigits(body) ==
  IF body # <<>> /\ IsDigits(body) THEN [ok |-> TRUE, val |-> NatOf(body)]
  ELSE NoNumber

NegInt(r) == [ok |-> r.ok, val |-> 0 - r.val]

IntOfStripped(t) ==
  IF t # <<>> /\ t[1] = "-" THEN NegInt(IntOfDigits(Tail(t)))
  ELSE IntOfDigits(t)

\* int(text)
IntOf(s) == IntOfStripped(Strip(s))

FloatOfParts(ip, fp) ==
  IF IsDigits(ip) /\ IsDigits(fp) /\ Len(ip) + Len(fp) > 0
  THEN [ok |-> TRUE, val |-> Dec(NatOf(ip \o fp), Len(fp))]
  ELSE NoFloat

DotsOf(body) == {i \in 1..Len(body) : body[i] = "."}

FloatSplitAt(body, p) ==
  FloatOfParts(SubSeq(body, 1, p - 1), SubSeq(body, p + 1, Len(body)))

FloatOfUnsigned(body) ==
  IF DotsOf(body) = {} THEN FloatOfParts(body, <<>>)
  ELSE IF Cardinality(DotsOf(body)) = 1
       THEN FloatSplitAt(body, CHOOSE i \in DotsOf(body) : TRUE)
       ELSE NoFloat

NegFloat(r) == [ok |-> r.ok, val |-> Dec(0 - r.val.n, r.val.d)]

FloatOfStripped(t) ==
  IF t # <<>> /\ t[1] = "-" THEN NegFloat(FloatOfUnsigned(Tail(t)))
  ELSE FloatOfUnsigned(t)

\* float(text)
FloatOf(s) == FloatOfStripped(Strip(s))

\* ---------------------------------------------------------- scalar parsers
\* A call's outcome: exc = "none" and the returned value, or the exception.
Ret(v) == [exc |-> "none", val |-> v]

Raise(e, v) == [exc |-> e, val |-> v]

DefaultNote == 60

DefaultOctave == 4

note_names == [C |-> 0, D |-> 2, E |-> 4, F |-> 5, G |-> 7, A |-> 9, B |-> 11]

NoteNumberOctaveFromZero(note, octave) == note + octave * 12

\* line 113: return note + (octave + 1) * 12
NoteNumber(note, octave) == note + (octave + 1) * 12

parse_note(note_str) ==
  IF note_str = None THEN Ret(DefaultNote)
  ELSE IF IntOf(note_str).ok THEN Ret(IntOf(note_str).val)
  ELSE
    LET t == Strip(note_str)
    IN  IF t = <<>> THEN Raise("IndexError", 0)     \* note_str[0] of ''
        ELSE IF UpperChar(t[1]) \notin DOMAIN note_names THEN Ret(DefaultNote)
        ELSE
          LET base   == note_names[UpperChar(t[1])]
              sharp  == Len(t) > 1 /\ t[2] = "#"
              flat   == ~sharp /\ Len(t) > 1 /\ LowerChar(t[2]) = "b"
              note   == IF sharp THEN base + 1
                        ELSE IF flat THEN base - 1 ELSE base
              i      == IF sharp \/ flat THEN 2 ELSE 1
              oct    == IntOf(SubSeq(t, i + 1, Len(t)))
              octave == IF oct.ok THEN oct.val ELSE DefaultOctave
          IN  Ret(NoteNumber(note, octave))

\* try: return float(...)  except ValueError: return 0.0
FloatOrZero(f) == IF f.ok THEN Ret(f.val) ELSE Ret(Dec(0, 0))

\* try: return float(...) / 1000.0  except ValueError: return 0.0
MillisOrZero(f) == IF f.ok THEN Ret(DecDiv1000(f.val)) ELSE Ret(Dec(0, 0))

parse_db(db_str) ==
  IF db_str = None THEN Ret(Dec(0, 0))
  ELSE FloatOrZero(FloatOf(Remove(Lower(Strip(db_str)), <<"d", "b">>)))

ParseTimeSecondsFirst(t) ==
  IF Contains(t, <<"s">>)
  THEN FloatOrZero(FloatOf(Strip(Remove(t, <<"s">>))))
  ELSE IF Contains(t, <<"m", "s">>)
  THEN MillisOrZero(FloatOf(Strip(Remove(t, <<"m", "s">>))))
  ELSE FloatOrZero(FloatOf(t))

\* lines 134-152, on the stripped, lower-cased text
ParseTimeText(t) ==
  IF Contains(t, <<"m", "s">>)
  THEN MillisOrZero(FloatOf(Strip(Remove(t, <<"m", "s">>))))
  ELSE IF Contains(t, <<"s">>)
  THEN FloatOrZero(FloatOf(Strip(Remove(t, <<"s">>))))
  ELSE FloatOrZero(FloatOf(t))

parse_time(time_str) ==
  IF time_str = None THEN Ret(Dec(0, 0))
  ELSE ParseTimeText(Lower(Strip(time_str)))

\* ------------------------------------------------------------- documents
\* A document is what ET.parse makes of a file: whether it is well-formed,
\* its 'groups' elements (collections) in document order, each with its
\* 'group' children, each with its 'sample' children, and its 'effect'
\* elements in document order.  A node maps each attribute the parser reads
\* to its text, or to None when the node does not carry it.
MaxNodes == 3

MaxEffects == 2

CollectionKeys == {"attack", "decay", "sustain", "release", "volume"}

GroupKeys == {"attack", "decay", "sustain", "release", "volume"}

SampleKeys == {"path", "rootNote", "loNote", "hiNote", "loVel", "hiVel",
               "volume", "pan", "tuning", "loopEnabled", "loopStart",
               "loopEnd", "loopCrossfade"}

EffectKeys == {"type", "frequency", "resonance", "wetLevel", "roomSize",
               "mix", "modRate", "modDepth"}

TxtLowpass == <<"l", "o", "w", "p", "a", "s", "s">>

TxtHighpass == <<"h", "i", "g", "h", "p", "a", "s", "s">>

TxtReverb == <<"r", "e", "v", "e", "r", "b">>

TxtChorus == <<"c", "h", "o", "r", "u", "s">>

TxtTrue == <<"t", "r", "u", "e">>

\* The texts each attribute takes in the documents explored.
CollectionValues ==
  [attack  |-> {<<"1", "s">>},
   decay   |-> {<<"1", "s">>},
   sustain |-> {<<".", "5">>, <<"x">>},
   release |-> {<<"1", "s">>},
   volume  |-> {<<"1", "d", "B">>}]

GroupValues ==
  [attack  |-> {<<>>, <<"x">>, <<"4", "m", "s">>},
   decay   |-> {<<>>, <<"4", "m", "s">>},
   sustain |-> {<<>>, <<".", "4">>},
   release |-> {<<>>, <<"4", "m", "s">>},
   volume  |-> {<<"2", "d", "B">>}]

SampleValues ==
  [path          |-> {<<"a">>},
   rootNote      |-> {<<"6", "7">>, <<"C", "4">>, <<"2", "0", "0">>},
   loNote        |-> {<<"1">>},
   hiNote        |-> {<<"9", "9">>},
   loVel         |-> {<<"1">>, <<"-", "1">>},
   hiVel         |-> {<<"9", "9">>},
   volume        |-> {<<"-", "3", "d", "B">>},
   pan           |-> {<<".", "5">>, <<>>},
   tuning        |-> {<<"4">>},
   loopEnabled   |-> {<<"T", "r", "u", "e">>},
   loopStart     |-> {<<"1">>},
   loopEnd       |-> {<<"9">>},
   loopCrossfade |-> {<<"1">>}]

EffectTypes == {None, TxtLowpass, TxtHighpass, TxtReverb,
                <<"C", "h", "o", "r", "u", "s">>, <<"d", "e", "l", "a", "y">>}

EffectValues ==
  [frequency |-> {<<"4", "4", "0">>, <<"1", "k">>},
   resonance |-> {<<"2">>},
   wetLevel  |-> {<<".", "3">>, <<".", "6">>},
   roomSize  |-> {<<".", "9">>},
   mix       |-> {<<".", "5">>},
   modRate   |-> {<<"3">>},
   modDepth  |-> {<<".", "7">>}]

\* The attributes each effect type's branch reads; a node of another type
\* (or of none) is given a wetLevel, which no branch reads for it.
EffectReads(type) ==
  IF Lower(type) \in {TxtLowpass, TxtHighpass} THEN {"frequency", "resonance"}
  ELSE IF Lower(type) = TxtReverb THEN {"wetLevel", "roomSize"}
  ELSE IF Lower(type) = TxtChorus THEN {"mix", "modRate", "modDepth"}
  ELSE {"wetLevel"}

Blank(keys) == [a \in keys |-> None]

\* The nodes over `keys` that carry none or one of the attributes of `values`.
NodesOver(keys, values) ==
  {Blank(keys)} \cup
  UNION {{[Blank(keys) EXCEPT ![a] = v] : v \in values[a]} : a \in DOMAIN values}

\* The nodes explored carry at most one attribute (an effect node its type
\* and at most one more), and one node of each element carries two.
CollectionAttrs ==
  NodesOver(CollectionKeys, CollectionValues) \cup
  {[Blank(CollectionKeys) EXCEPT !["attack"] = <<"1", "s">>,
                                 !["sustain"] = <<".", "5">>]}

GroupAttrs ==
  NodesOver(GroupKeys, GroupValues) \cup
  {[Blank(GroupKeys) EXCEPT !["attack"] = <<"4", "m", "s">>,
                            !["volume"] = <<"2", "d", "B">>]}

SampleNodes ==
  NodesOver(SampleKeys, SampleValues) \cup
  {[Blank(SampleKeys) EXCEPT !["rootNote"] = <<"6", "7">>,
                             !["volume"] = <<"-", "3", "d", "B">>]}

EffectNodes ==
  UNION {{[n EXCEPT !["type"] = t] :
            n \in NodesOver(EffectKeys,
                            [a \in EffectReads(t) |-> EffectValues[a]])} :
         t \in EffectTypes}
  \cup {[Blank(EffectKeys) EXCEPT !["type"] = TxtLowpass,
                                  !["frequency"] = <<"4", "4", "0">>,
                                  !["resonance"] = <<"2">>]}

Malformed == [wellformed |-> FALSE, collections |-> <<>>, effects |-> <<>>]

\* The document with nc collections, ng[c] groups in collection c, ns[c, g]
\* samples in its group g, and the given attributes of each node.
DocWith(nc, ng, ns, ca, ga, sa, ea) ==
  [wellformed  |-> TRUE,
   collections |->
     [c \in 1..nc |->
        [attrs  |-> ca[c],
         groups |->
           [g \in 1..ng[c] |->
              [attrs   |-> ga[<<c, g>>],
               samples |-> [k \in 1..ns[<<c, g>>] |-> sa[<<c, g, k>>]]]]]],
   effects     |-> ea]

GroupIndex(nc, ng) ==
  {cg \in (1..nc) \X (1..MaxNodes) : cg[2] <= ng[cg[1]]}

SampleIndex(G, ns) ==
  {cgk \in G \X (1..MaxNodes) : cgk[2] <= ns[cgk[1]]}

\* The documents explored: malformed, or well-formed with at most MaxNodes
\* nodes, at most MaxEffects of them effects.
IsDoc(d) ==
  \/ d = Malformed
  \/ \E nc \in 0..MaxNodes :
       \E ng \in [1..nc -> 0..(MaxNodes - nc)] :
         /\ nc + Cardinality(GroupIndex(nc, ng)) <= MaxNodes
         /\ \E ns \in [GroupIndex(nc, ng) ->
                         0..(MaxNodes - nc - Cardinality(GroupIndex(nc, ng)))] :
              \E ne \in 0..MaxEffects :
                /\ nc + Cardinality(GroupIndex(nc, ng))
                      + Cardinality(SampleIndex(GroupIndex(nc, ng), ns))
                      + ne <= MaxNodes
                /\ \E ca \in [1..nc -> CollectionAttrs] :
                     \E ga \in [GroupIndex(nc, ng) -> GroupAttrs] :
                       \E sa \in [{<<x[1][1], x[1][2], x[2]>> :
                                     x \in SampleIndex(GroupIndex(nc, ng), ns)}
                                  -> SampleNodes] :
                         \E ea \in [1..ne -> EffectNodes] :
                           d = DocWith(nc, ng, ns, ca, ga, sa, ea)

\* --------------------------------------------------------- the data model
GroupSettings(attack, decay, sustain, release, volume_db) ==
  [attack |-> attack, decay |-> decay, sustain |-> sustain,
   release |-> release, volume_db |-> volume_db]

GroupSettingsDefault ==
  GroupSettings(Dec(0, 0), Dec(0, 0), Dec(1, 0), Dec(3, 1), Dec(0, 0))

EffectSettingsDefault ==
  [filter_type  |-> "None",
   filter_freq  |-> Dec(22000, 0),
   filter_res   |-> Dec(707, 3),
   reverb_wet   |-> Dec(0, 0),
   reverb_size  |-> Dec(5, 1),
   chorus_mix   |-> Dec(0, 0),
   chorus_rate  |-> Dec(2, 1),
   chorus_depth |-> Dec(2, 1)]

\* InstrumentPreset(name=...), with __post_init__'s empty lists and effects.
InstrumentPreset(name) ==
  [name          |-> name,
   source_format |-> "DecentSampler",
   samples       |-> <<>>,
   groups        |-> <<>>,
   effects       |-> EffectSettingsDefault]

StemOfParent(path) == path.dir

\* Path(filepath).stem
Stem(path) == path.stem

\* ----------------------------------------------------- attribute readers
\* int(node.get(key, default)) with an int default: [ok, val].
IntAttr(node, key, default) ==
  IF node[key] = None THEN [ok |-> TRUE, val |-> default] ELSE IntOf(node[key])

\* float(node.get(key, default)) with a numeric default: [ok, val].
FloatAttr(node, key, default) ==
  IF node[key] = None THEN [ok |-> TRUE, val |-> default]
  ELSE FloatOf(node[key])

\* parse_db(node.get('volume', '0dB'))
VolumeAttr(node) ==
  parse_db(IF node["volume"] = None THEN <<"0", "d", "B">> ELSE node["volume"]).val

\* parse_time(node.get(key, default)) with a text default
TimeAttr(node, key, default) ==
  parse_time(IF node[key] = None THEN default ELSE node[key]).val

\* `if group.get(key)`: absent and empty text are both false.
Truthy(node, key) == node[key] # None /\ node[key] # <<>>

CollectionSettingsWith(groups_elem, sustain) ==
  IF ~sustain.ok THEN Raise("ValueError", GroupSettingsDefault)
  ELSE Ret(GroupSettings(
             TimeAttr(groups_elem, "attack", <<"0", ".", "0">>),
             TimeAttr(groups_elem, "decay", <<"0", ".", "0">>),
             sustain.val,
             TimeAttr(groups_elem, "release", <<"0", ".", "3">>),
             VolumeAttr(groups_elem)))

\* lines 169-175: the collection-level GroupSettings, or ValueError.
CollectionSettings(groups_elem) ==
  CollectionSettingsWith(groups_elem,
                         FloatAttr(groups_elem, "sustain", Dec(1, 0)))

\* parse_time(group.get(key)) if group.get(key) else group_settings.<key>
TimeOrInherited(group, key, inherited) ==
  IF Truthy(group, key) THEN parse_time(group[key]).val ELSE inherited

GroupLocalsWith(group, group_settings, sustain) ==
  IF ~sustain.ok THEN Raise("ValueError", GroupSettingsDefault)
  ELSE Ret([group_volume  |-> VolumeAttr(group),
            group_attack  |-> TimeOrInherited(group, "attack",
                                              group_settings.attack),
            group_decay   |-> TimeOrInherited(group, "decay",
                                              group_settings.decay),
            group_sustain |-> sustain.val,
            group_release |-> TimeOrInherited(group, "release",
                                              group_settings.release)])

\* lines 180-184: a group's volume and effective envelope, or ValueError.
GroupLocals(group, group_settings) ==
  GroupLocalsWith(group, group_settings,
                  FloatAttr(group, "sustain", group_settings.sustain))

SampleVolumeOwnOnly(volume, group_volume) == volume

\* line 211: volume_db = volume + group_volume
SampleVolume(volume, group_volume) == DecAdd(volume, group_volume)

SampleMappingFrom(sample, group_volume, root_note, lo_note, hi_note, lo_vel, hi_vel, pan, tune, loop_start, loop_end, loop_xfade) ==
  IF /\ root_note.ok /\ lo_note.ok /\ hi_note.ok /\ lo_vel.ok /\ hi_vel.ok
     /\ pan.ok /\ tune.ok /\ loop_start.ok /\ loop_end.ok /\ loop_xfade.ok
  THEN Ret(
    [path           |-> IF sample["path"] = None THEN <<>> ELSE sample["path"],
     root_note      |-> root_note.val,
     lo_note        |-> lo_note.val,
     hi_note        |-> hi_note.val,
     lo_vel         |-> lo_vel.val,
     hi_vel         |-> hi_vel.val,
     volume_db      |-> SampleVolume(VolumeAttr(sample), group_volume),
     pan            |-> pan.val,
     tune_cents     |-> tune.val,
     loop_enabled   |-> /\ sample["loopEnabled"] # None
                        /\ Lower(sample["loopEnabled"]) = TxtTrue,
     loop_start     |-> loop_start.val,
     loop_end       |-> loop_end.val,
     loop_crossfade |-> loop_xfade.val])
  ELSE Raise("ValueError", <<>>)

SampleMappingRooted(sample, group_volume, root_note) ==
  SampleMappingFrom(sample, group_volume, root_note,
                    IntAttr(sample, "loNote", root_note.val),
                    IntAttr(sample, "hiNote", root_note.val),
                    IntAttr(sample, "loVel", 0),
                    IntAttr(sample, "hiVel", 127),
                    FloatAttr(sample, "pan", Dec(0, 0)),
                    IntAttr(sample, "tuning", 0),
                    IntAttr(sample, "loopStart", 0),
                    IntAttr(sample, "loopEnd", 0),
                    IntAttr(sample, "loopCrossfade", 0))

\* lines 188-218: the SampleMapping of a sample node, or ValueError.
SampleMappingOf(sample, group_volume) ==
  SampleMappingRooted(sample, group_volume,
                      IntAttr(sample, "rootNote", DefaultNote))

FilterFields(effects, kind, freq, res) ==
  IF freq.ok /\ res.ok
  THEN Ret([effects EXCEPT !.filter_type = kind,
                           !.filter_freq = freq.val,
                           !.filter_res = res.val])
  ELSE Raise("ValueError", effects)

\* lines 226-229
ApplyLowpass(effects, effect) ==
  FilterFields(effects, "lowpass",
               FloatAttr(effect, "frequency", Dec(22000, 0)),
               FloatAttr(effect, "resonance", Dec(707, 3)))

\* lines 230-233
ApplyHighpass(effects, effect) ==
  FilterFields(effects, "highpass",
               FloatAttr(effect, "frequency", Dec(20, 0)),
               FloatAttr(effect, "resonance", Dec(707, 3)))

ReverbFieldsKeepFirst(effects, wet, size) ==
  IF ~(wet.ok /\ size.ok) THEN Raise("ValueError", effects)
  ELSE IF effects.reverb_wet # Dec(0, 0) THEN Ret(effects)
  ELSE Ret([effects EXCEPT !.reverb_wet = wet.val, !.reverb_size = size.val])

\* lines 235-236: both fields are written by every reverb node
ReverbFields(effects, wet, size) ==
  IF wet.ok /\ size.ok
  THEN Ret([effects EXCEPT !.reverb_wet = wet.val, !.reverb_size = size.val])
  ELSE Raise("ValueError", effects)

\* lines 234-236
ApplyReverb(effects, effect) ==
  ReverbFields(effects,
               FloatAttr(effect, "wetLevel", Dec(0, 0)),
               FloatAttr(effect, "roomSize", Dec(5, 1)))

ChorusFields(effects, mix, rate, depth) ==
  IF mix.ok /\ rate.ok /\ depth.ok
  THEN Ret([effects EXCEPT !.chorus_mix = mix.val,
                           !.chorus_rate = rate.val,
                           !.chorus_depth = depth.val])
  ELSE Raise("ValueError", effects)

\* lines 237-240
ApplyChorus(effects, effect) ==
  ChorusFields(effects,
               FloatAttr(effect, "mix", Dec(0, 0)),
               FloatAttr(effect, "modRate", Dec(2, 1)),
               FloatAttr(effect, "modDepth", Dec(2, 1)))

\* effect.get('type', '').lower()
EffectType(effect) ==
  Lower(IF effect["type"] = None THEN <<>> ELSE effect["type"])

\* lines 224-240: one effect node applied to the EffectSettings record.
ApplyEffect(effects, effect) ==
  IF EffectType(effect) = TxtLowpass THEN ApplyLowpass(effects, effect)
  ELSE IF EffectType(effect) = TxtHighpass THEN ApplyHighpass(effects, effect)
  ELSE IF EffectType(effect) = TxtReverb THEN ApplyReverb(effects, effect)
  ELSE IF EffectType(effect) = TxtChorus THEN ApplyChorus(effects, effect)
  ELSE Ret(effects)

\* ------------------------------------------------------- the serializer
\* A dict is the sequence of its <<key, value>> items in insertion order;
\* asdict lists a dataclass's fields in the order of their declaration.
asdict_SampleMapping(s) ==
  <<<<"path", s.path>>, <<"root_note", s.root_note>>,
    <<"lo_note", s.lo_note>>, <<"hi_note", s.hi_note>>,
    <<"lo_vel", s.lo_vel>>, <<"hi_vel", s.hi_vel>>,
    <<"volume_db", s.volume_db>>, <<"pan", s.pan>>,
    <<"tune_cents", s.tune_cents>>, <<"loop_enabled", s.loop_enabled>>,
    <<"loop_start", s.loop_start>>, <<"loop_end", s.loop_end>>,
    <<"loop_crossfade", s.loop_crossfade>>>>

asdict_GroupSettings(g) ==
  <<<<"attack", g.attack>>, <<"decay", g.decay>>, <<"sustain", g.sustain>>,
    <<"release", g.release>>, <<"volume_db", g.volume_db>>>>

EffectDictWithoutReverb(e) ==
  <<<<"filter_type", e.filter_type>>, <<"filter_freq", e.filter_freq>>,
    <<"filter_res", e.filter_res>>, <<"chorus_mix", e.chorus_mix>>,
    <<"chorus_rate", e.chorus_rate>>, <<"chorus_depth", e.chorus_depth>>>>

asdict_EffectSettings(e) ==
  <<<<"filter_type", e.filter_type>>, <<"filter_freq", e.filter_freq>>,
    <<"filter_res", e.filter_res>>, <<"reverb_wet", e.reverb_wet>>,
    <<"reverb_size", e.reverb_size>>, <<"chorus_mix", e.chorus_mix>>,
    <<"chorus_rate", e.chorus_rate>>, <<"chorus_depth", e.chorus_depth>>>>

\* line 252: [asdict(s) for s in preset.samples]
SampleDicts(samples) ==
  [i \in 1..Len(samples) |-> asdict_SampleMapping(samples[i])]

EnvelopeOfLast(groups) ==
  IF groups # <<>> THEN groups[Len(groups)] ELSE GroupSettingsDefault

\* line 253: preset.groups[0] if preset.groups else GroupSettings()
EnvelopeOf(groups) ==
  IF groups # <<>> THEN groups[1] ELSE GroupSettingsDefault

\* lines 249-255
preset_to_dict(p) ==
  <<<<"name", p.name>>,
    <<"source_format", p.source_format>>,
    <<"samples", SampleDicts(p.samples)>>,
    <<"envelope", asdict_GroupSettings(EnvelopeOf(p.groups))>>,
    <<"effects", asdict_EffectSettings(p.effects)>>>>

\* ------------------------------------------------------------ the state
VARIABLES arg, called, ret_note, ret_float

VARIABLES path, doc, pc, exc, ci, gi, si, ei, preset, group_settings,
          group_volume, group_attack, group_decay, group_sustain,
          group_release, effects

VARIABLES files, spc, idx, presets, log

VARIABLES output

scalarVars == <<arg, called, ret_note, ret_float>>

groupLocals ==
  <<group_volume, group_attack, group_decay, group_sustain, group_release>>

parseVars == <<path, doc, pc, exc, ci, gi, si, ei, preset, group_settings,
               groupLocals, effects>>

scanVars == <<files, spc, idx, presets, log>>

vars == <<scalarVars, parseVars, scanVars, output>>

\* ------------------------------------------------- the scalar parsers, run
ScalarIdle ==
  /\ called = "none"
  /\ ret_note = Ret(0)
  /\ ret_float = Ret(Dec(0, 0))

\* No file is being parsed: the locals of parse_dspreset hold nothing yet.
ParseLocalsFresh ==
  /\ exc = "none"
  /\ ci = 0 /\ gi = 0 /\ si = 0 /\ ei = 0
  /\ preset = InstrumentPreset("")
  /\ group_settings = GroupSettingsDefault
  /\ group_volume = Dec(0, 0)
  /\ group_attack = Dec(0, 0)
  /\ group_decay = Dec(0, 0)
  /\ group_sustain = Dec(0, 0)
  /\ group_release = Dec(0, 0)
  /\ effects = EffectSettingsDefault

NoFile == [dir |-> "", stem |-> ""]

ParseIdle ==
  /\ path = NoFile
  /\ doc = Malformed
  /\ pc = "idle"
  /\ ParseLocalsFresh

ScanIdle ==
  /\ files = <<>>
  /\ spc = "idle"
  /\ idx = 0
  /\ presets = <<>>
  /\ log = <<>>

\* main() has written nothing yet.
MainIdle == output = <<>>

InitScalar ==
  /\ arg = None \/ IsText(arg)
  /\ ScalarIdle
  /\ ParseIdle
  /\ ScanIdle
  /\ MainIdle

CallParseNote ==
  /\ called = "none"
  /\ called' = "parse_note"
  /\ ret_note' = parse_note(arg)
  /\ UNCHANGED <<arg, ret_float, parseVars, scanVars, output>>

CallParseDb ==
  /\ called = "none"
  /\ called' = "parse_db"
  /\ ret_float' = parse_db(arg)
  /\ UNCHANGED <<arg, ret_note, parseVars, scanVars, output>>

CallParseTime ==
  /\ called = "none"
  /\ called' = "parse_time"
  /\ ret_float' = parse_time(arg)
  /\ UNCHANGED <<arg, ret_note, parseVars, scanVars, output>>

NextScalar == CallParseNote \/ CallParseDb \/ CallParseTime

SpecScalar == InitScalar /\ [][NextScalar]_vars

\* ------------------------------------------------------ parse_dspreset, run
\* pc is the place in parse_dspreset: "call" (entered), the head of the loop
\* over collections, over a collection's groups, over a group's samples, over
\* the effects, then "returned"; "raised" when an exception left the function.
Throw(e) ==
  /\ pc' = "raised"
  /\ exc' = e
  /\ UNCHANGED <<path, doc, ci, gi, si, ei, preset, group_settings,
                 groupLocals, effects>>

\* lines 158-164
ParseOpen ==
  /\ pc = "call"
  /\ IF ~doc.wellformed THEN Throw("ParseError")
     ELSE /\ preset' = InstrumentPreset(Stem(path))
          /\ pc' = "collections"
          /\ UNCHANGED <<path, doc, exc, ci, gi, si, ei, group_settings,
                         groupLocals, effects>>
  /\ UNCHANGED <<scalarVars, scanVars, output>>

\* lines 167-176
NextCollection ==
  /\ pc = "collections"
  /\ ci < Len(doc.collections)
  /\ \E r \in {CollectionSettings(doc.collections[ci + 1].attrs)} :
         IF r.exc # "none" THEN Throw(r.exc)
         ELSE /\ group_settings' = r.val
              /\ preset' = [preset EXCEPT !.groups = Append(@, r.val)]
              /\ ci' = ci + 1
              /\ gi' = 0
              /\ pc' = "groups"
              /\ UNCHANGED <<path, doc, exc, si, ei, groupLocals, effects>>
  /\ UNCHANGED <<scalarVars, scanVars, output>>

\* lines 179-184
NextGroup ==
  /\ pc = "groups"
  /\ gi < Len(doc.collections[ci].groups)
  /\ \E r \in {GroupLocals(doc.collections[ci].groups[gi + 1].attrs,
                          group_settings)} :
         IF r.exc # "none" THEN Throw(r.exc)
         ELSE /\ group_volume' = r.val.group_volume
              /\ group_attack' = r.val.group_attack
              /\ group_decay' = r.val.group_decay
              /\ group_sustain' = r.val.group_sustain
              /\ group_release' = r.val.group_release
              /\ gi' = gi + 1
              /\ si' = 0
              /\ pc' = "samples"
              /\ UNCHANGED <<path, doc, exc, ci, ei, preset, group_settings,
                             effects>>
  /\ UNCHANGED <<scalarVars, scanVars, output>>

\* lines 187-219
NextSample ==
  /\ pc = "samples"
  /\ si < Len(doc.collections[ci].groups[gi].samples)
  /\ \E r \in {SampleMappingOf(doc.collections[ci].groups[gi].samples[si + 1],
                              group_volume)} :
         IF r.exc # "none" THEN Throw(r.exc)
         ELSE /\ preset' = [preset EXCEPT !.samples = Append(@, r.val)]
              /\ si' = si + 1
              /\ UNCHANGED <<path, doc, pc, exc, ci, gi, ei, group_settings,
                             groupLocals, effects>>
  /\ UNCHANGED <<scalarVars, scanVars, output>>

\* line 187: the group has no further sample
EndSamples ==
  /\ pc = "samples"
  /\ si = Len(doc.collections[ci].groups[gi].samples)
  /\ pc' = "groups"
  /\ UNCHANGED <<path, doc, exc, ci, gi, si, ei, preset, group_settings,
                 groupLocals, effects>>
  /\ UNCHANGED <<scalarVars, scanVars, output>>

\* line 179: the collection has no further group
EndGroups ==
  /\ pc = "groups"
  /\ gi = Len(doc.collections[ci].groups)
  /\ pc' = "collections"
  /\ UNCHANGED <<path, doc, exc, ci, gi, si, ei, preset, group_settings,
                 groupLocals, effects>>
  /\ UNCHANGED <<scalarVars, scanVars, output>>

\* lines 167, 222: no further collection; effects = EffectSettings()
EndCollections ==
  /\ pc = "collections"
  /\ ci = Len(doc.collections)
  /\ effects' = EffectSettingsDefault
  /\ ei' = 0
  /\ pc' = "effects"
  /\ UNCHANGED <<path, doc, exc, ci, gi, si, preset, group_settings,
                 groupLocals>>
  /\ UNCHANGED <<scalarVars, scanVars, output>>

\* lines 223-240
NextEffect ==
  /\ pc = "effects"
  /\ ei < Len(doc.effects)
  /\ \E r \in {ApplyEffect(effects, doc.effects[ei + 1])} :
         IF r.exc # "none" THEN Throw(r.exc)
         ELSE /\ effects' = r.val
              /\ ei' = ei + 1
              /\ UNCHANGED <<path, doc, pc, exc, ci, gi, si, preset,
                             group_settings, groupLocals>>
  /\ UNCHANGED <<scalarVars, scanVars, output>>

\* lines 242-244
ParseReturn ==
  /\ pc = "effects"
  /\ ei = Len(doc.effects)
  /\ preset' = [preset EXCEPT !.effects = effects]
  /\ pc' = "returned"
  /\ UNCHANGED <<path, doc, exc, ci, gi, si, ei, group_settings,
                 groupLocals, effects>>
  /\ UNCHANGED <<scalarVars, scanVars, output>>

\* lines 354 and 366-367: main, single-file mode, serializes the parsed preset
Serialize ==
  /\ spc = "idle"
  /\ pc = "returned"
  /\ output' = preset_to_dict(preset)
  /\ pc' = "written"
  /\ UNCHANGED <<path, doc, exc, ci, gi, si, ei, preset, group_settings,
                 groupLocals, effects>>
  /\ UNCHANGED <<scalarVars, scanVars>>

NextParse ==
  \/ ParseOpen \/ NextCollection \/ NextGroup \/ NextSample \/ EndSamples
  \/ EndGroups \/ EndCollections \/ NextEffect \/ ParseReturn \/ Serialize

\* Single-file mode (line 354): one document, parsed once.
InitParse ==
  /\ arg = None
  /\ ScalarIdle
  /\ ScanIdle
  /\ path = [dir |-> "packs", stem |-> "piano"]
  /\ IsDoc(doc)
  /\ pc = "call"
  /\ ParseLocalsFresh
  /\ MainIdle

SpecParse == InitParse /\ [][NextParse]_vars

\* --------------------------------------------------------- scan_folder, run
MaxFiles == 3

DocOf(samples, effs) ==
  [wellformed  |-> TRUE,
   collections |-> <<[attrs  |-> Blank(CollectionKeys),
                      groups |-> <<[attrs   |-> Blank(GroupKeys),
                                    samples |-> samples]>>]>>,
   effects     |-> effs]

\* The contents a discovered file may have: not well-formed; one sample; one
\* sample whose rootNote is a note name; no collection and one reverb effect.
ScanDocs ==
  {Malformed,
   DocOf(<<Blank(SampleKeys)>>, <<>>),
   DocOf(<<[Blank(SampleKeys) EXCEPT !["rootNote"] = <<"C", "4">>]>>, <<>>),
   [wellformed |-> TRUE, collections |-> <<>>,
    effects |-> <<[Blank(EffectKeys) EXCEPT !["type"] = TxtReverb,
                                            !["wetLevel"] = <<".", "3">>]>>]}

\* The *.dspreset files below the folder: <dir>/<stem>.dspreset
ScanPaths == {[dir |-> d, stem |-> n] : d \in {"a", "b"}, n \in {"kick", "snare"}}


\* What rglob yields: distinct files, in the order the file system gives.
IsDiscovery(fs) ==
  \E n \in 0..MaxFiles :
    \E ps \in [1..n -> ScanPaths] :
      /\ \A i, j \in 1..n : i # j => ps[i] # ps[j]
      /\ \E ds \in [1..n -> ScanDocs] :
           fs = [i \in 1..n |-> [path |-> ps[i], doc |-> ds[i]]]

\* lines 298-299
InitScan ==
  /\ arg = None
  /\ ScalarIdle
  /\ ParseIdle
  /\ IsDiscovery(files)
  /\ spc = "loop"
  /\ idx = 0
  /\ presets = <<>>
  /\ log = <<>>
  /\ MainIdle

\* lines 301-303: the next file; parse_dspreset is entered with fresh locals
ScanCall ==
  /\ spc = "loop"
  /\ idx < Len(files)
  /\ idx' = idx + 1
  /\ spc' = "parsing"
  /\ path' = files[idx + 1].path
  /\ doc' = files[idx + 1].doc
  /\ pc' = "call"
  /\ exc' = "none"
  /\ ci' = 0 /\ gi' = 0 /\ si' = 0 /\ ei' = 0
  /\ preset' = InstrumentPreset("")
  /\ group_settings' = GroupSettingsDefault
  /\ group_volume' = Dec(0, 0)
  /\ group_attack' = Dec(0, 0)
  /\ group_decay' = Dec(0, 0)
  /\ group_sustain' = Dec(0, 0)
  /\ group_release' = Dec(0, 0)
  /\ effects' = EffectSettingsDefault
  /\ UNCHANGED <<files, presets, log, scalarVars, output>>

\* lines 303-306: parse_dspreset returned
ScanParsed ==
  /\ spc = "parsing"
  /\ pc = "returned"
  /\ preset' = [preset EXCEPT !.name = Stem(path)]
  /\ presets' = Append(presets, preset')
  /\ log' = Append(log, [kind |-> "Parsed", file |-> path])
  /\ spc' = "loop"
  /\ pc' = "idle"
  /\ UNCHANGED <<files, idx, path, doc, exc, ci, gi, si, ei, group_settings,
                 groupLocals, effects, scalarVars, output>>

ScanErrorAborts ==
  /\ spc = "parsing"
  /\ pc = "raised"
  /\ log' = Append(log, [kind |-> "Error", file |-> path])
  /\ spc' = "returned"
  /\ pc' = "idle"
  /\ UNCHANGED <<files, idx, presets, path, doc, exc, ci, gi, si, ei, preset,
                 group_settings, groupLocals, effects, scalarVars, output>>

\* lines 307-308: parse_dspreset raised; the loop goes on
ScanError ==
  /\ spc = "parsing"
  /\ pc = "raised"
  /\ log' = Append(log, [kind |-> "Error", file |-> path])
  /\ spc' = "loop"
  /\ pc' = "idle"
  /\ UNCHANGED <<files, idx, presets, path, doc, exc, ci, gi, si, ei, preset,
                 group_settings, groupLocals, effects, scalarVars, output>>

\* line 310
ScanReturn ==
  /\ spc = "loop"
  /\ idx = Len(files)
  /\ spc' = "returned"
  /\ UNCHANGED <<files, idx, presets, log, parseVars, scalarVars, output>>

NextScan ==
  \/ ScanCall \/ ScanParsed \/ ScanError \/ ScanReturn
  \/ ParseOpen \/ NextCollection \/ NextGroup \/ NextSample \/ EndSamples
  \/ EndGroups \/ EndCollections \/ NextEffect \/ ParseReturn

SpecScan == InitScan /\ [][NextScan]_vars

\* ------------------------------------------------ claims: scalar parsers
\* C2: parse_note is total: for absent input, the empty string, a blank
\* string, or any string that is neither a decimal integer nor a note name
\* starting with a letter A-G, it returns 60 and never raises.
C2_ParseNoteTotal ==
  called = "parse_note" =>
    /\ ret_note.exc = "none"
    /\ LET fallback ==
             \/ arg = None
             \/ Strip(arg) = <<>>
             \/ /\ ~IntOf(arg).ok
                /\ UpperChar(Strip(arg)[1]) \notin {"A","B","C","D","E","F","G"}
       IN  fallback => ret_note.val = 60

C3_Semitone(letter) ==
  CASE letter = "C" -> 0 [] letter = "D" -> 2 [] letter = "E" -> 4
    [] letter = "F" -> 5 [] letter = "G" -> 7 [] letter = "A" -> 9
    [] letter = "B" -> 11

\* C3: a note name <letter A-G, any case><optional '#' or 'b'/'B'><octave>
\* yields semitone(letter) + accidental + (octave + 1) * 12, the octave being
\* 4 when the suffix is missing or no integer; a decimal-integer string n
\* yields n.
C3_NoteFormula ==
  (called = "parse_note" /\ arg # None) =>
    LET t == Strip(arg)
    IN  /\ IntOf(arg).ok => ret_note = Ret(IntOf(arg).val)
        /\ (t # <<>> /\ UpperChar(t[1]) \in {"A","B","C","D","E","F","G"}) =>
             LET acc    == IF Len(t) > 1 /\ t[2] = "#" THEN 1
                           ELSE IF Len(t) > 1 /\ t[2] \in {"b", "B"} THEN 0 - 1
                           ELSE 0
                 suffix == SubSeq(t, IF acc = 0 THEN 2 ELSE 3, Len(t))
                 octave == IF IntOf(suffix).ok THEN IntOf(suffix).val ELSE 4
             IN  ret_note =
                   Ret(C3_Semitone(UpperChar(t[1])) + acc + (octave + 1) * 12)

\* "Bb4" is B flat in octave 4: 11 - 1 + 5 * 12 = 70.
C3_Witness ==
  /\ called = "parse_note"
  /\ arg = <<"B", "b", "4">>
  /\ ret_note = Ret(70)

\* C4: parse_time never raises; text containing "ms" has the unit removed and
\* its number divided by 1000, otherwise text containing "s" has the unit
\* removed and is seconds, otherwise the text itself is seconds; absent input
\* and a number that does not parse give 0.0.
C4_TimeForms ==
  called = "parse_time" =>
    /\ ret_float.exc = "none"
    /\ LET t   == IF arg = None THEN <<>> ELSE Lower(Strip(arg))
           ms  == FloatOf(Strip(Remove(t, <<"m", "s">>)))
           sec == FloatOf(Strip(Remove(t, <<"s">>)))
           raw == FloatOf(t)
           num == IF Contains(t, <<"m", "s">>) THEN ms
                  ELSE IF Contains(t, <<"s">>) THEN sec ELSE raw
       IN  ret_float.val =
             IF arg = None \/ ~num.ok THEN Dec(0, 0)
             ELSE IF Contains(t, <<"m", "s">>) THEN Dec(num.val.n, num.val.d + 3)
             ELSE num.val

\* "1ms" is one thousandth of a second.
C4_Witness ==
  /\ called = "parse_time"
  /\ arg = <<"1", "m", "s">>
  /\ ret_float = Ret(Dec(1, 3))

\* C5: parse_db strips surrounding whitespace and a trailing "db" suffix
\* (any case, only a suffix) and parses the rest as a number; absent input
\* and a rest that is no number (such as "db3") give 0.0; nothing raises.
C5_DbSuffixOnly ==
  called = "parse_db" =>
    /\ ret_float.exc = "none"
    /\ LET t    == IF arg = None THEN <<>> ELSE Lower(Strip(arg))
           n    == Len(t)
           rest == IF n > 1 /\ SubSeq(t, n - 1, n) = <<"d", "b">>
                   THEN SubSeq(t, 1, n - 2) ELSE t
           num  == FloatOf(rest)
       IN  ret_float.val = IF arg = None \/ ~num.ok THEN Dec(0, 0) ELSE num.val

\* ------------------------------------------------ claims: parse_dspreset
\* C1: parse_dspreset fails only on a document that is not well-formed: for
\* a well-formed document no attribute text makes it raise.
C1_OnlyMalformedFails == pc = "raised" => ~doc.wellformed

RECURSIVE C6_Concat(_)
C6_Concat(ss) == IF ss = <<>> THEN <<>> ELSE Head(ss) \o C6_Concat(Tail(ss))

\* The sample nodes of the document in document order, each with the
\* attributes of the group node that encloses it.
C6_DocSamples ==
  C6_Concat([c \in 1..Len(doc.collections) |->
    C6_Concat([g \in 1..Len(doc.collections[c].groups) |->
      [k \in 1..Len(doc.collections[c].groups[g].samples) |->
         [sample |-> doc.collections[c].groups[g].samples[k],
          group  |-> doc.collections[c].groups[g].attrs]]])])

C6_Db(node) ==
  IF node["volume"] = None THEN Dec(0, 0) ELSE parse_db(node["volume"]).val

C6_GainOf(ds) ==
  /\ Len(preset.samples) <= Len(ds)
  /\ pc = "returned" => Len(preset.samples) = Len(ds)
  /\ \A i \in 1..Len(preset.samples) :
       preset.samples[i].volume_db =
         DecAdd(C6_Db(ds[i].sample), C6_Db(ds[i].group))

\* C6: every sample's volume_db is parse_db of its own volume attribute
\* (0 when absent) plus parse_db of its group node's volume attribute (0 when
\* absent); a returned preset has one mapping per sample node.
C6_AdditiveGain == C6_GainOf(C6_DocSamples)

\* volume="-3dB" in a group with volume="2dB" comes out as -1.0.
C6_Witness ==
  /\ pc = "returned"
  /\ Len(preset.samples) = 1
  /\ C6_DocSamples[1].sample["volume"] = <<"-", "3", "d", "B">>
  /\ C6_DocSamples[1].group["volume"] = <<"2", "d", "B">>
  /\ preset.samples[1].volume_db = Dec(0 - 1, 0)

C7_GlobalDefault(key) ==
  CASE key = "attack" -> Dec(0, 0) [] key = "decay" -> Dec(0, 0)
    [] key = "sustain" -> Dec(1, 0) [] key = "release" -> Dec(3, 1)

\* The value an attribute text stands for: seconds, or the sustain level.
C7_ValueOf(key, text) ==
  IF key = "sustain" THEN FloatOf(text).val ELSE parse_time(text).val

C7_Effective(key, group, collection) ==
  IF group[key] # None THEN C7_ValueOf(key, group[key])
  ELSE IF collection[key] # None THEN C7_ValueOf(key, collection[key])
  ELSE C7_GlobalDefault(key)

\* C7: for attack, decay, sustain and release a group's effective value is
\* that of its own attribute whenever the attribute is present (empty or
\* unparseable text included), else the collection's, which is the
\* collection's own attribute if present and else the global default.
C7_PresentWins ==
  pc = "samples" =>
    LET group      == doc.collections[ci].groups[gi].attrs
        collection == doc.collections[ci].attrs
    IN  /\ group_attack = C7_Effective("attack", group, collection)
        /\ group_decay = C7_Effective("decay", group, collection)
        /\ group_sustain = C7_Effective("sustain", group, collection)
        /\ group_release = C7_Effective("release", group, collection)

C10_Kind(effect) ==
  LET t == Lower(IF effect["type"] = None THEN <<>> ELSE effect["type"])
  IN  IF t \in {TxtLowpass, TxtHighpass} THEN "filter"
      ELSE IF t = TxtReverb THEN "reverb"
      ELSE IF t = TxtChorus THEN "chorus" ELSE "other"

\* The last of the first n effect nodes that is of `kind` (0: there is none).
C10_Last(kind, n) ==
  LET of == {i \in 1..n : C10_Kind(doc.effects[i]) = kind}
  IN  IF of = {} THEN 0 ELSE CHOOSE i \in of : \A j \in of : j <= i

C10_Num(effect, key, default) ==
  IF effect[key] = None THEN default ELSE FloatOf(effect[key]).val

\* The EffectSettings the claim gives for the first n effect nodes.
C10_Expected(n) ==
  LET f == C10_Last("filter", n)
      r == C10_Last("reverb", n)
      c == C10_Last("chorus", n)
      low == f > 0 /\ Lower(doc.effects[f]["type"]) = TxtLowpass
  IN  [filter_type  |-> IF f = 0 THEN "None"
                        ELSE IF low THEN "lowpass" ELSE "highpass",
       filter_freq  |-> IF f = 0 THEN Dec(22000, 0)
                        ELSE C10_Num(doc.effects[f], "frequency",
                                     IF low THEN Dec(22000, 0) ELSE Dec(20, 0)),
       filter_res   |-> IF f = 0 THEN Dec(707, 3)
                        ELSE C10_Num(doc.effects[f], "resonance", Dec(707, 3)),
       reverb_wet   |-> IF r = 0 THEN Dec(0, 0)
                        ELSE C10_Num(doc.effects[r], "wetLevel", Dec(0, 0)),
       reverb_size  |-> IF r = 0 THEN Dec(5, 1)
                        ELSE C10_Num(doc.effects[r], "roomSize", Dec(5, 1)),
       chorus_mix   |-> IF c = 0 THEN Dec(0, 0)
                        ELSE C10_Num(doc.effects[c], "mix", Dec(0, 0)),
       chorus_rate  |-> IF c = 0 THEN Dec(2, 1)
                        ELSE C10_Num(doc.effects[c], "modRate", Dec(2, 1)),
       chorus_depth |-> IF c = 0 THEN Dec(2, 1)
                        ELSE C10_Num(doc.effects[c], "modDepth", Dec(2, 1))]

\* C10: after any number of effect nodes, and in the returned preset, the
\* fields of each effect kind are those of the last node of that kind (its
\* attributes, or the kind's defaults), whatever earlier nodes of the kind
\* said; other nodes change nothing; without a node the defaults stand.
C10_LastWriteWins ==
  /\ pc = "effects" => effects = C10_Expected(ei)
  /\ pc = "returned" => preset.effects = C10_Expected(Len(doc.effects))

\* Two reverb nodes: wetLevel .3, then .6; the preset has .6.
C10_Witness ==
  /\ pc = "returned"
  /\ Len(doc.effects) = 2
  /\ doc.effects[1]["type"] = TxtReverb
  /\ doc.effects[1]["wetLevel"] = <<".", "3">>
  /\ doc.effects[2]["type"] = TxtReverb
  /\ doc.effects[2]["wetLevel"] = <<".", "6">>
  /\ preset.effects.reverb_wet = Dec(6, 1)

\* --------------------------------------------------- claims: scan_folder
\* Whether parse_dspreset raises on a document, and the preset it returns
\* otherwise, computed on the whole document at once.
C8_GroupFails(groups, settings) ==
  \E g \in 1..Len(groups) :
    \/ GroupLocals(groups[g].attrs, settings).exc # "none"
    \/ \E k \in 1..Len(groups[g].samples) :
         SampleMappingOf(groups[g].samples[k],
                         VolumeAttr(groups[g].attrs)).exc # "none"

RECURSIVE C8_FoldEffects(_, _)
C8_FoldEffects(effs, acc) ==
  IF effs = <<>> THEN acc
  ELSE IF acc.exc # "none" THEN acc
  ELSE C8_FoldEffects(Tail(effs), ApplyEffect(acc.val, Head(effs)))

C8_Fails(d) ==
  \/ ~d.wellformed
  \/ \E c \in 1..Len(d.collections) :
       \/ CollectionSettings(d.collections[c].attrs).exc # "none"
       \/ C8_GroupFails(d.collections[c].groups,
                        CollectionSettings(d.collections[c].attrs).val)
  \/ C8_FoldEffects(d.effects, Ret(EffectSettingsDefault)).exc # "none"

C8_SamplesOf(d) ==
  C6_Concat([c \in 1..Len(d.collections) |->
    C6_Concat([g \in 1..Len(d.collections[c].groups) |->
      [k \in 1..Len(d.collections[c].groups[g].samples) |->
         SampleMappingOf(d.collections[c].groups[g].samples[k],
                         VolumeAttr(d.collections[c].groups[g].attrs)).val]])])

C8_PresetOf(file) ==
  [name          |-> file.path.stem,
   source_format |-> "DecentSampler",
   samples       |-> C8_SamplesOf(file.doc),
   groups        |-> [c \in 1..Len(file.doc.collections) |->
                        CollectionSettings(file.doc.collections[c].attrs).val],
   effects       |-> C8_FoldEffects(file.doc.effects,
                                    Ret(EffectSettingsDefault)).val]

\* The files whose handling is over.
C8_Handled == SubSeq(files, 1, IF spc = "parsing" THEN idx - 1 ELSE idx)

C8_Parses(file) == ~C8_Fails(file.doc)

\* C8: the files are handled one after another; a file whose parse fails is
\* reported and adds nothing, and the loop goes on to the end; the result
\* holds exactly the presets of the files that parse, each as parsing that
\* file alone gives it, in discovery order.
C8_BatchIsolation ==
  LET good == SelectSeq(C8_Handled, C8_Parses)
  IN  /\ presets = [k \in 1..Len(good) |-> C8_PresetOf(good[k])]
      /\ log = [i \in 1..Len(C8_Handled) |->
                  [kind |-> IF C8_Fails(C8_Handled[i].doc) THEN "Error"
                            ELSE "Parsed",
                   file |-> C8_Handled[i].path]]
      /\ spc = "returned" => Len(C8_Handled) = Len(files)

\* Three files, the second malformed: two presets, in order, one report.
C8_Witness ==
  /\ spc = "returned"
  /\ Len(files) = 3
  /\ files[1].doc.wellformed
  /\ files[2].doc = Malformed
  /\ files[3].doc.wellformed
  /\ Len(presets) = 2
  /\ presets[1].name = files[1].path.stem
  /\ presets[2].name = files[3].path.stem
  /\ presets[1].name # presets[2].name
  /\ log[2].kind = "Error"

\* The reports of the files that gave a preset, in order.
C9_Sources == SelectSeq(log, LAMBDA e : e.kind = "Parsed")

\* C9 as claimed: every preset is named by the filename stem of its source
\* and no two presets of the result have the same name.
C9_NamesUnique ==
  /\ Len(presets) = Len(C9_Sources)
  /\ \A k \in 1..Len(presets) : presets[k].name = C9_Sources[k].file.stem
  /\ \A i, j \in 1..Len(presets) : i # j => presets[i].name # presets[j].name

\* C9 as amended: every preset is named by the filename stem of its source,
\* so two presets have the same name exactly when their sources have the same
\* filename stem (as files of one name in different subdirectories do).
C9_NameIsStem ==
  /\ Len(presets) = Len(C9_Sources)
  /\ \A k \in 1..Len(presets) : presets[k].name = C9_Sources[k].file.stem
  /\ \A i, j \in 1..Len(presets) :
       presets[i].name = presets[j].name <=>
         C9_Sources[i].file.stem = C9_Sources[j].file.stem

\* a/kick.dspreset and b/kick.dspreset both parse: two presets named "kick".
C9_Witness ==
  /\ spc = "returned"
  /\ Len(presets) = 2
  /\ C9_Sources[1].file.dir # C9_Sources[2].file.dir
  /\ presets[1].name = "kick"
  /\ presets[2].name = "kick"

\* ---------------------------------------------------- claims: serializer
\* parse_dspreset of a whole document under the path being parsed, as a
\* fold over its nodes in document order: Ret(preset) or the exception.
C11_WithSample(acc, r) ==
  IF r.exc # "none" THEN Raise(r.exc, acc.val)
  ELSE Ret([acc.val EXCEPT !.samples = Append(@, r.val)])

RECURSIVE C11_AddSamples(_, _, _)
C11_AddSamples(samples, volume, acc) ==
  IF samples = <<>> \/ acc.exc # "none" THEN acc
  ELSE C11_AddSamples(Tail(samples), volume,
         C11_WithSample(acc, SampleMappingOf(Head(samples), volume)))

C11_WithGroup(group, acc, r) ==
  IF r.exc # "none" THEN Raise(r.exc, acc.val)
  ELSE C11_AddSamples(group.samples, r.val.group_volume, acc)

RECURSIVE C11_AddGroups(_, _, _)
C11_AddGroups(groups, settings, acc) ==
  IF groups = <<>> \/ acc.exc # "none" THEN acc
  ELSE C11_AddGroups(Tail(groups), settings,
         C11_WithGroup(Head(groups), acc,
                       GroupLocals(Head(groups).attrs, settings)))

C11_WithCollection(collection, acc, r) ==
  IF r.exc # "none" THEN Raise(r.exc, acc.val)
  ELSE C11_AddGroups(collection.groups, r.val,
                     Ret([acc.val EXCEPT !.groups = Append(@, r.val)]))

RECURSIVE C11_AddCollections(_, _)
C11_AddCollections(collections, acc) ==
  IF collections = <<>> \/ acc.exc # "none" THEN acc
  ELSE C11_AddCollections(Tail(collections),
         C11_WithCollection(Head(collections), acc,
                            CollectionSettings(Head(collections).attrs)))

C11_WithEffects(acc, r) ==
  IF acc.exc # "none" THEN acc
  ELSE IF r.exc # "none" THEN Raise(r.exc, acc.val)
  ELSE Ret([acc.val EXCEPT !.effects = r.val])

C11_Parse(d) ==
  C11_WithEffects(
    C11_AddCollections(d.collections, Ret(InstrumentPreset(path.stem))),
    C8_FoldEffects(d.effects, Ret(EffectSettingsDefault)))

C11_DropLast(d) ==
  [d EXCEPT !.collections = SubSeq(@, 1, Len(@) - 1)]

\* Documents next to d: d itself ("same"); d with one more collection, empty
\* with attributes x ("collection") or with one group of one sample x
\* ("sample"); d without its last collection ("shorter"); d with attributes
\* x on its first collection ("first"); d with one more effect x ("effect").
C11_Kinds == {"same", "collection", "sample", "shorter", "first", "effect"}

C11_ParamsOf(kind, d) ==
  CASE kind = "same" -> {0}
    [] kind = "collection" -> CollectionAttrs
    [] kind = "sample" -> SampleNodes
    [] kind = "shorter" -> IF Len(d.collections) = 0 THEN {} ELSE {0}
    [] kind = "first" -> IF Len(d.collections) = 0 THEN {} ELSE CollectionAttrs
    [] kind = "effect" -> EffectNodes

C11_Other(kind, x, d) ==
  CASE kind = "same" -> d
    [] kind = "collection" ->
         [d EXCEPT !.collections = Append(@, [attrs |-> x, groups |-> <<>>])]
    [] kind = "sample" ->
         [d EXCEPT !.collections =
            Append(@, [attrs  |-> Blank(CollectionKeys),
                       groups |-> <<[attrs   |-> Blank(GroupKeys),
                                     samples |-> <<x>>]>>])]
    [] kind = "shorter" -> C11_DropLast(d)
    [] kind = "first" -> [d EXCEPT !.collections[1].attrs = x]
    [] kind = "effect" -> [d EXCEPT !.effects = Append(@, x)]

\* What of a preset the serialized form keeps: everything but the groups,
\* of which only the first (the default settings when there is none).
C11_Kept(p) ==
  [name          |-> p.name,
   source_format |-> p.source_format,
   samples       |-> p.samples,
   effects       |-> p.effects,
   envelope      |-> IF Len(p.groups) = 0 THEN GroupSettingsDefault
                     ELSE Head(p.groups)]

C11_SameFormSamePreset(r) ==
  (r.exc = "none" /\ preset_to_dict(r.val) = output) => r.val = preset

C11_SameFormIffSameKept(r) ==
  r.exc = "none" =>
    (preset_to_dict(r.val) = output <=> C11_Kept(r.val) = C11_Kept(preset))

\* C11 as claimed: the preset is recoverable from its serialized form: a
\* parsed preset with the same serialized form is the same preset, in every
\* field (name, source format, samples, groups, effects).
C11_RoundTrip ==
  pc = "written" =>
    \A kind \in C11_Kinds :
      \A x \in C11_ParamsOf(kind, doc) :
        C11_SameFormSamePreset(C11_Parse(C11_Other(kind, x, doc)))

\* C11 as amended: the serialized form determines, and is determined by, the
\* preset's name, source format, ordered samples, effects and first group
\* (the default settings without a group); the groups as such are not kept.
C11_RoundTripButGroups ==
  pc = "written" =>
    /\ C11_Parse(doc) = Ret(preset)
    /\ \A kind \in C11_Kinds :
         \A x \in C11_ParamsOf(kind, doc) :
           C11_SameFormIffSameKept(C11_Parse(C11_Other(kind, x, doc)))

\* Two collections with different settings: the document without the second
\* one has another preset and the same serialized form.
C11_Witness ==
  /\ pc = "written"
  /\ Len(preset.groups) = 2
  /\ preset.groups[1] # preset.groups[2]
  /\ C11_Parse(C11_DropLast(doc)).val # preset
  /\ preset_to_dict(C11_Parse(C11_DropLast(doc)).val) = output

C12_Midi == 0..127

C12_InRange(mapping, node) ==
  /\ mapping.root_note \in C12_Midi
  /\ mapping.lo_note \in C12_Midi
  /\ mapping.hi_note \in C12_Midi
  /\ mapping.lo_vel \in C12_Midi
  /\ mapping.hi_vel \in C12_Midi
  /\ node["loVel"] = None => mapping.lo_vel = 0
  /\ node["hiVel"] = None => mapping.hi_vel = 127

C12_AllInRange(ds) ==
  \A i \in 1..Len(preset.samples) : C12_InRange(preset.samples[i], ds[i].sample)

\* C12: every SampleMapping of a preset parsed from a well-formed document
\* has root_note, lo_note, hi_note, lo_vel and hi_vel within 0..127, lo_vel
\* being 0 and hi_vel 127 when the sample node has no such attribute.
C12_SampleRanges == doc.wellformed => C12_AllInRange(C6_DocSamples)

\* The value under `key` in a dict.
C13_Get(dict, key) ==
  dict[CHOOSE i \in 1..Len(dict) : dict[i][1] = key][2]

C13_Keys == {"attack", "decay", "sustain", "release", "volume_db"}

\* The collection-level value of a collection node, by its attributes alone.
C13_CollectionValue(key, attrs) ==
  IF key = "volume_db" THEN C6_Db(attrs)
  ELSE IF attrs[key] = None THEN C7_GlobalDefault(key)
  ELSE C7_ValueOf(key, attrs[key])

\* The envelope the claim gives for the document.
C13_Expected(key) ==
  IF Len(doc.collections) = 0
  THEN (IF key = "volume_db" THEN Dec(0, 0) ELSE C7_GlobalDefault(key))
  ELSE C13_CollectionValue(key, doc.collections[1].attrs)

C13_EnvelopeIs(envelope) ==
  /\ Len(envelope) = 5
  /\ \A key \in C13_Keys : C13_Get(envelope, key) = C13_Expected(key)

\* C13: preset.groups holds one GroupSettings per collection node, in
\* document order, and the serialized "envelope" is exactly the first of
\* them, whatever later collections and the groups say; without a collection
\* it is the default (attack 0, decay 0, sustain 1.0, release 0.3, volume 0).
C13_FirstGroupOnly ==
  pc = "written" =>
    /\ Len(preset.groups) = Len(doc.collections)
    /\ \A c \in 1..Len(preset.groups) :
         \A key \in C13_Keys :
           preset.groups[c][key] =
             C13_CollectionValue(key, doc.collections[c].attrs)
    /\ C13_EnvelopeIs(C13_Get(output, "envelope"))

\* Two collections, the first with attack="1s" and a group that overrides
\* it, the second without: the envelope's attack is 1 second.
C13_Witness ==
  /\ pc = "written"
  /\ Len(doc.collections) = 2
  /\ doc.collections[1].attrs["attack"] = <<"1", "s">>
  /\ Len(doc.collections[1].groups) = 1
  /\ doc.collections[1].groups[1].attrs["attack"] = <<"4", "m", "s">>
  /\ doc.collections[2].attrs["attack"] = None
  /\ preset.groups[2].attack = Dec(0, 0)
  /\ C13_Get(C13_Get(output, "envelope"), "attack") = Dec(1, 0)

====
